---------------------------- MODULE Spec2Model ----------------------------
(***************************************************************************)
(* Vanity keypair search (generateVanityKeypair) and the pool maintenance  *)
(* loop (maintainUnpickedKeys) of src/main.go, and their older versions    *)
(* (generateVanityKeypair, checkAndGenerateKeys) of src/unnamed/part_000.  *)
(*                                                                         *)
(* Strings are sequences of one-character strings, byte arrays are         *)
(* sequences of numbers in 0..255.                                         *)
(***************************************************************************)
EXTENDS Integers, Sequences, FiniteSets, TLC

(***************************************************************************)
(* Bounds of the model.                                                    *)
(***************************************************************************)
\* largest configured worker count (WORKERS)
MaxWorkers == 2
\* largest configured pool target (TARGET_UNPICKED)
MaxTarget == 2
\* number of distinct accounts the random source can produce
NumSeeds == 2

(***************************************************************************)
(* Strings: strings.TrimSpace, strings.HasSuffix.                          *)
(***************************************************************************)
\* the white space strings.TrimSpace removes (ASCII part of unicode.IsSpace)
IsSpace(ch) == ch \in {" ", "\t", "\n", "\r", "\f"}

RECURSIVE TrimLeft(_)
TrimLeft(s) ==
    IF s # <<>> /\ IsSpace(Head(s)) THEN TrimLeft(Tail(s)) ELSE s

RECURSIVE TrimRight(_)
TrimRight(s) ==
    IF s # <<>> /\ IsSpace(s[Len(s)])
    THEN TrimRight(SubSeq(s, 1, Len(s) - 1))
    ELSE s

\* strings.TrimSpace(s): s without leading and trailing white space
TrimSpace(s) == TrimRight(TrimLeft(s))

\* a tail comparison that ignores letter case ("a" and "A" taken as equal)
HasSuffixFold(s, suffix) ==
    LET up(ch) == IF ch = "a" THEN "A" ELSE ch
    IN  /\ Len(s) >= Len(suffix)
        /\ \A k \in 1..Len(suffix) :
              up(s[Len(s) - Len(suffix) + k]) = up(suffix[k])

\* strings.HasSuffix(s, suffix): exact, case-sensitive comparison of the tail
HasSuffix(s, suffix) ==
    /\ Len(s) >= Len(suffix)
    /\ SubSeq(s, Len(s) - Len(suffix) + 1, Len(s)) = suffix

(***************************************************************************)
(* base58.Encode and types.NewAccount.                                     *)
(***************************************************************************)
\* the Bitcoin base58 alphabet used by base58.Encode
B58Alphabet ==
    << "1", "2", "3", "4", "5", "6", "7", "8", "9",
       "A", "B", "C", "D", "E", "F", "G", "H", "J", "K", "L", "M", "N",
       "P", "Q", "R", "S", "T", "U", "V", "W", "X", "Y", "Z",
       "a", "b", "c", "d", "e", "f", "g", "h", "i", "j", "k", "m",
       "n", "o", "p", "q", "r", "s", "t", "u", "v", "w", "x", "y", "z" >>

\* number of leading zero bytes of a byte array
RECURSIVE LeadingZeros(_)
LeadingZeros(b) ==
    IF b # <<>> /\ Head(b) = 0 THEN 1 + LeadingZeros(Tail(b)) ELSE 0

\* the byte array read as a big-endian number
RECURSIVE BytesToNat(_)
BytesToNat(b) ==
    IF b = <<>> THEN 0
    ELSE BytesToNat(SubSeq(b, 1, Len(b) - 1)) * 256 + b[Len(b)]

\* the base-58 digits of n, most significant first (none for 0)
RECURSIVE B58Digits(_)
B58Digits(n) ==
    IF n = 0 THEN <<>>
    ELSE B58Digits(n \div Len(B58Alphabet))
            \o << B58Alphabet[(n % Len(B58Alphabet)) + 1] >>

\* base58.Encode(b): one "1" per leading zero byte, then the digits
Base58Encode(b) ==
    [k \in 1..LeadingZeros(b) |-> B58Alphabet[1]] \o B58Digits(BytesToNat(b))

\* the seeds the random source of types.NewAccount can draw
Seeds == 0..(NumSeeds - 1)

\* the public key byte derived from a seed (an injective key derivation
\* whose encodings are a, A, 2a, 2A, 3a, ...)
PubByteOf(seed) == 33 + 58 * (seed \div 2) - 24 * (seed % 2)

\* types.NewAccount() for one draw of the random source: the private key is
\* the seed followed by the public key, as for ed25519
NewAccount(seed) ==
    [ PublicKey  |-> << PubByteOf(seed) >>,
      PrivateKey |-> << seed, PubByteOf(seed) >> ]

Accounts == { NewAccount(seed) : seed \in Seeds }

\* the zero value of types.Account: all bytes zero
ZeroAccount == [ PublicKey |-> << 0 >>, PrivateKey |-> << 0, 0 >> ]

\* the zero value Keypair{}
NoKeypair == [ Priv |-> <<>>, Pub |-> <<>> ]

\* the Keypair a worker builds from an account
KeypairOf(acc) ==
    [ Priv |-> Base58Encode(acc.PrivateKey), Pub |-> Base58Encode(acc.PublicKey) ]

\* the suffixes a caller passes (SUFFIX, or the argument of a direct call)
Suffixes ==
    { <<>>, << "a" >>, << "A" >>, << " ", "a" >>, << "a", " " >>,
      << "2", "a" >>, << "z" >> }

(***************************************************************************)
(* State.                                                                  *)
(***************************************************************************)
VARIABLES
    suffix,     \* the suffix argument as the caller passes it
    workers,    \* the workers argument
    target,     \* the target argument of maintainUnpickedKeys
    store,      \* the rows of table token_key
    pc,         \* position of maintainUnpickedKeys
    c,          \* its local c, the last count read
    err,        \* the error of the last call (FALSE is nil)
    kp,         \* the Keypair generateVanityKeypair returned
    ctxDone,    \* ctx of the current call is cancelled
    found,      \* the channel found (capacity 1)
    cpc,        \* position of generateVanityKeypair's own goroutine
    i,          \* its loop variable i
    wpc,        \* position of each worker goroutine
    wkp,        \* the Keypair a worker is sending
    account     \* the variable account shared by the goroutines of the older
                \* generateVanityKeypair (src/unnamed/part_000)

cfgVars    == << suffix, workers, target >>
loopVars   == << store, pc, c >>
searchVars == << ctxDone, found, cpc, i, wpc, wkp >>
vars == << suffix, workers, target, store, pc, c, err, kp,
           ctxDone, found, cpc, i, wpc, wkp, account >>

WorkerIds == 1..MaxWorkers

\* capacity of make(chan Keypair, 1)
FoundCap == 1

(***************************************************************************)
(* generateVanityKeypair (src/main.go 46-79).                              *)
(***************************************************************************)
\* the state of a call that has just been entered: found is made, no
\* worker is started
CallEntered ==
    /\ found' = <<>>
    /\ cpc' = "spawn"
    /\ i' = 0
    /\ wpc' = [w \in WorkerIds |-> "unborn"]
    /\ wkp' = [w \in WorkerIds |-> NoKeypair]

\* the spawn loop with i <= workers in place of i < workers
SpawnOffByOne ==
    /\ cpc = "spawn"
    /\ IF i <= workers /\ i < MaxWorkers
       THEN /\ wpc' = [wpc EXCEPT ![i + 1] = "loop"]
            /\ i' = i + 1
            /\ cpc' = cpc
       ELSE /\ cpc' = "select"
            /\ UNCHANGED << wpc, i >>
    /\ UNCHANGED << cfgVars, account, loopVars, err, kp, ctxDone, found, wkp >>

\* for i := 0; i < workers; i++ { go worker() }
Spawn ==
    /\ cpc = "spawn"
    /\ IF i < workers
       THEN /\ wpc' = [wpc EXCEPT ![i + 1] = "loop"]
            /\ i' = i + 1
            /\ cpc' = cpc
       ELSE /\ cpc' = "select"
            /\ UNCHANGED << wpc, i >>
    /\ UNCHANGED << cfgVars, account, loopVars, err, kp, ctxDone, found, wkp >>

\* a worker that gives up after a draw that does not match
WorkerIterOnce(w) ==
    /\ wpc[w] = "loop"
    /\ IF ctxDone
       THEN /\ wpc' = [wpc EXCEPT ![w] = "cancelled"]
            /\ wkp' = wkp
       ELSE \E acc \in Accounts :
              IF HasSuffix(Base58Encode(acc.PublicKey), TrimSpace(suffix))
              THEN /\ wpc' = [wpc EXCEPT ![w] = "send"]
                   /\ wkp' = [wkp EXCEPT ![w] = KeypairOf(acc)]
              ELSE /\ wpc' = [wpc EXCEPT ![w] = "cancelled"]
                   /\ wkp' = wkp
    /\ UNCHANGED << cfgVars, account, loopVars, err, kp, ctxDone, found, cpc, i >>

\* one iteration of the worker's loop up to the send: case <-ctx.Done()
\* returns; default draws an account and compares the tail of its encoded
\* public key with the trimmed suffix
WorkerIter(w) ==
    /\ wpc[w] = "loop"
    /\ IF ctxDone
       THEN /\ wpc' = [wpc EXCEPT ![w] = "cancelled"]
            /\ wkp' = wkp
       ELSE \E acc \in Accounts :
              IF HasSuffix(Base58Encode(acc.PublicKey), TrimSpace(suffix))
              THEN /\ wpc' = [wpc EXCEPT ![w] = "send"]
                   /\ wkp' = [wkp EXCEPT ![w] = KeypairOf(acc)]
              ELSE UNCHANGED << wpc, wkp >>
    /\ UNCHANGED << cfgVars, account, loopVars, err, kp, ctxDone, found, cpc, i >>

\* found <- Keypair{...}; return. The send waits while the buffer is full.
WorkerSend(w) ==
    /\ wpc[w] = "send"
    /\ Len(found) < FoundCap
    /\ found' = Append(found, wkp[w])
    /\ wpc' = [wpc EXCEPT ![w] = "delivered"]
    /\ wkp' = [wkp EXCEPT ![w] = NoKeypair]
    /\ UNCHANGED << cfgVars, account, loopVars, err, kp, ctxDone, cpc, i >>

\* The call's final select. A Go select whose cases are both ready takes
\* either one; the goroutine may reach the select at any time after the spawn
\* loop, so with ctx cancelled and found filled either return can happen.
\* select { case <-ctx.Done(): return Keypair{}, ctx.Err() ... }
ReturnCancelled ==
    /\ cpc = "select"
    /\ ctxDone
    /\ kp' = NoKeypair
    /\ err' = TRUE
    /\ cpc' = "returned"
    /\ UNCHANGED << cfgVars, account, loopVars, ctxDone, found, i, wpc, wkp >>

\* select { ... case kp := <-found: return kp, nil }
ReturnFound ==
    /\ cpc = "select"
    /\ found # <<>>
    /\ kp' = Head(found)
    /\ err' = FALSE
    /\ found' = Tail(found)
    /\ cpc' = "returned"
    /\ UNCHANGED << cfgVars, account, loopVars, ctxDone, i, wpc, wkp >>

\* the owner of ctx cancels it
Cancel ==
    /\ cpc # "idle"
    /\ ~ctxDone
    /\ ctxDone' = TRUE
    /\ UNCHANGED << cfgVars, account, loopVars, err, kp, found, cpc, i, wpc, wkp >>

\* a direct call generateVanityKeypair(ctx, suffix, workers) by a caller
\* that may cancel ctx at any time
SearchInit ==
    /\ suffix \in Suffixes
    /\ workers \in 0..MaxWorkers
    /\ target = 0
    /\ store = {}
    /\ pc = "caller"
    /\ c = 0
    /\ err = FALSE
    /\ kp = NoKeypair
    /\ ctxDone = FALSE
    /\ found = <<>>
    /\ cpc = "spawn"
    /\ i = 0
    /\ wpc = [w \in WorkerIds |-> "unborn"]
    /\ wkp = [w \in WorkerIds |-> NoKeypair]
    /\ account = ZeroAccount

SearchNext ==
    \/ Spawn
    \/ \E w \in WorkerIds : WorkerIter(w)
    \/ \E w \in WorkerIds : WorkerSend(w)
    \/ ReturnCancelled
    \/ ReturnFound
    \/ Cancel

SearchSpec == SearchInit /\ [][SearchNext]_vars

(***************************************************************************)
(* The table token_key (TokenKey, src/main.go 23-31) and its two queries.  *)
(* created_at is set by the database and read by nobody; it is left out.   *)
(***************************************************************************)
\* countUnpicked(db) without a database error: rows with is_picked = false
CountUnpicked(rows) == Cardinality({ r \in rows : ~r.IsPicked })

\* uuid.NewString(): an identifier no row carries (rows are never deleted)
NewUUID(rows) == Cardinality(rows) + 1

\* TokenKey{ID: uuid.NewString(), PrivateKey: kp.Priv, PublicKey: kp.Pub,
\*          IsPicked: false}
NewKey(rows, k) ==
    [ ID |-> NewUUID(rows), PrivateKey |-> k.Priv, PublicKey |-> k.Pub,
      IsPicked |-> FALSE ]

\* a plain db.Create(&newKey): any clash on a unique column is an error
CreatePlain(rows, newKey) ==
    IF \E r \in rows : \/ r.PublicKey = newKey.PublicKey
                        \/ r.ID = newKey.ID
                        \/ r.PrivateKey = newKey.PrivateKey
    THEN [ rows |-> rows, err |-> TRUE ]
    ELSE [ rows |-> rows \cup { newKey }, err |-> FALSE ]

\* an upsert that overwrites the conflicting row instead of keeping it
CreateOverwrite(rows, newKey) ==
    [ rows |-> { r \in rows : r.PublicKey # newKey.PublicKey } \cup { newKey },
      err  |-> FALSE ]

\* db.Clauses(clause.OnConflict{Columns: public_key, DoNothing: true})
\*   .Create(&newKey) without a database failure: a row with the same
\* public_key makes it a no-op; a clash on another unique column (id,
\* private_key) is an error; otherwise the row is added
CreateOnConflictDoNothing(rows, newKey) ==
    IF \E r \in rows : r.PublicKey = newKey.PublicKey
    THEN [ rows |-> rows, err |-> FALSE ]
    ELSE IF \E r \in rows : r.ID = newKey.ID \/ r.PrivateKey = newKey.PrivateKey
         THEN [ rows |-> rows, err |-> TRUE ]
         ELSE [ rows |-> rows \cup { newKey }, err |-> FALSE ]

\* an external consumer marks one unpicked key picked
ConsumerPick ==
    /\ \E r \in store :
          /\ ~r.IsPicked
          /\ store' = (store \ { r }) \cup { [r EXCEPT !.IsPicked = TRUE] }
    /\ UNCHANGED << cfgVars, account, pc, c, err, kp, searchVars >>

(***************************************************************************)
(* maintainUnpickedKeys (src/main.go 87-140).                              *)
(***************************************************************************)
\* the check with c > target in place of c >= target
CheckCountStrict ==
    /\ pc = "Checking"
    /\ c' = CountUnpicked(store)
    /\ err' = FALSE
    /\ pc' = IF c' > target THEN "Sleeping" ELSE "Filling"
    /\ UNCHANGED << cfgVars, account, store, kp, searchVars >>

\* the check that sleeps whatever the count is
CheckCountAlwaysSleeps ==
    /\ pc = "Checking"
    /\ c' = CountUnpicked(store)
    /\ err' = FALSE
    /\ pc' = "Sleeping"
    /\ UNCHANGED << cfgVars, account, store, kp, searchVars >>

\* c, err := countUnpicked(db) succeeds: sleep when c >= target, else fill
CheckCount ==
    /\ pc = "Checking"
    /\ c' = CountUnpicked(store)
    /\ err' = FALSE
    /\ pc' = IF c' >= target THEN "Sleeping" ELSE "Filling"
    /\ UNCHANGED << cfgVars, account, store, kp, searchVars >>

\* the failed count without its continue: the loop falls through to the fill
CheckCountFailsFallThrough ==
    /\ pc = "Checking"
    /\ c' = 0
    /\ err' = TRUE
    /\ pc' = "Filling"
    /\ UNCHANGED << cfgVars, account, store, kp, searchVars >>

\* c, err := countUnpicked(db) fails: log, time.Sleep(10s), continue
CheckCountFails ==
    /\ pc = "Checking"
    /\ c' = 0
    /\ err' = TRUE
    /\ pc' = "CountBackoff"
    /\ UNCHANGED << cfgVars, account, store, kp, searchVars >>

\* time.Sleep(10 * time.Second) is over; continue
CountBackoffOver ==
    /\ pc = "CountBackoff"
    /\ pc' = "Checking"
    /\ UNCHANGED << cfgVars, account, store, c, err, kp, searchVars >>

\* time.Sleep(sleepDur) of the "enough keys" branch is over; continue
SleepOver ==
    /\ pc = "Sleeping"
    /\ pc' = "Checking"
    /\ UNCHANGED << cfgVars, account, store, c, err, kp, searchVars >>

\* the loop test with c <= target in place of c < target
FillLoopOffByOne ==
    /\ pc = "Filling"
    /\ IF c <= target
       THEN /\ pc' = "Searching"
            /\ ctxDone' = FALSE
            /\ CallEntered
       ELSE /\ pc' = "FilledSleeping"
            /\ UNCHANGED searchVars
    /\ UNCHANGED << cfgVars, account, store, c, err, kp >>

\* the loop with one ctx made before it and used for every attempt
FillLoopStaleCtx ==
    /\ pc = "Filling"
    /\ IF c < target
       THEN /\ pc' = "Searching"
            /\ ctxDone' = ctxDone
            /\ CallEntered
       ELSE /\ pc' = "FilledSleeping"
            /\ UNCHANGED searchVars
    /\ UNCHANGED << cfgVars, account, store, c, err, kp >>

\* for c < int64(target) { ctx, cancel := context.WithCancel(...);
\*   kp, err := generateVanityKeypair(ctx, suffix, workers) ...: the loop
\* test; the call is entered with a fresh ctx, or the loop is left
FillLoop ==
    /\ pc = "Filling"
    /\ IF c < target
       THEN /\ pc' = "Searching"
            /\ ctxDone' = FALSE
            /\ CallEntered
       ELSE /\ pc' = "FilledSleeping"
            /\ UNCHANGED searchVars
    /\ UNCHANGED << cfgVars, account, store, c, err, kp >>

\* the call has returned: cancel(); on an error log, sleep 1s and continue,
\* else go on to the insert. The workers of the call share nothing with the
\* loop but this call's ctx and found, which the loop never touches again:
\* they are followed to their end in SearchSpec and dropped from the state
\* here
SearchReturned ==
    /\ pc = "Searching"
    /\ cpc = "returned"
    /\ ctxDone' = TRUE
    /\ cpc' = "idle"
    /\ found' = <<>>
    /\ i' = 0
    /\ wpc' = [w \in WorkerIds |-> "unborn"]
    /\ wkp' = [w \in WorkerIds |-> NoKeypair]
    /\ pc' = IF err THEN "SearchBackoff" ELSE "Inserting"
    /\ UNCHANGED << cfgVars, account, store, c, err, kp >>

\* time.Sleep(1 * time.Second) is over; continue
SearchBackoffOver ==
    /\ pc = "SearchBackoff"
    /\ pc' = "Filling"
    /\ UNCHANGED << cfgVars, account, store, c, err, kp, searchVars >>

\* newKey := TokenKey{...}; err = db.Clauses(...).Create(&newKey).Error
\* with the database answering: on an error log and continue
Insert ==
    /\ pc = "Inserting"
    /\ LET res == CreateOnConflictDoNothing(store, NewKey(store, kp))
       IN  /\ store' = res.rows
           /\ err' = res.err
           /\ pc' = IF res.err THEN "Filling" ELSE "Recounting"
    /\ UNCHANGED << cfgVars, account, c, kp, searchVars >>

\* the failed insert with a break in place of its continue
InsertFailsBreak ==
    /\ pc = "Inserting"
    /\ err' = TRUE
    /\ pc' = "FilledSleeping"
    /\ UNCHANGED << cfgVars, account, store, c, kp, searchVars >>

\* the insert fails in the database (connection lost, ...): log, continue
InsertFails ==
    /\ pc = "Inserting"
    /\ err' = TRUE
    /\ pc' = "Filling"
    /\ UNCHANGED << cfgVars, account, store, c, kp, searchVars >>

\* the recount that keeps the count read before the insert
RecountStale ==
    /\ pc = "Recounting"
    /\ c' = c
    /\ err' = FALSE
    /\ pc' = "Filling"
    /\ UNCHANGED << cfgVars, account, store, kp, searchVars >>

\* c, err = countUnpicked(db) succeeds after the insert: log, next round
Recount ==
    /\ pc = "Recounting"
    /\ c' = CountUnpicked(store)
    /\ err' = FALSE
    /\ pc' = "Filling"
    /\ UNCHANGED << cfgVars, account, store, kp, searchVars >>

\* the failed recount with a return in place of its break
RecountFailsReturn ==
    /\ pc = "Recounting"
    /\ c' = 0
    /\ err' = TRUE
    /\ pc' = "Returned"
    /\ UNCHANGED << cfgVars, account, store, kp, searchVars >>

\* c, err = countUnpicked(db) fails after the insert: log, break
RecountFails ==
    /\ pc = "Recounting"
    /\ c' = 0
    /\ err' = TRUE
    /\ pc' = "FilledSleeping"
    /\ UNCHANGED << cfgVars, account, store, kp, searchVars >>

\* log "Target reached", time.Sleep(sleepDur) is over; next round
FilledSleepOver ==
    /\ pc = "FilledSleeping"
    /\ pc' = "Checking"
    /\ UNCHANGED << cfgVars, account, store, c, err, kp, searchVars >>

\* go maintainUnpickedKeys(db, targetUnpicked, suffix, ..., workers); WORKERS
\* is any integer strconv.Atoi accepts, zero and negative ones included
Init ==
    /\ suffix \in Suffixes
    /\ workers \in (-1)..MaxWorkers
    /\ target \in 0..MaxTarget
    /\ store = {}
    /\ pc = "Checking"
    /\ c = 0
    /\ err = FALSE
    /\ kp = NoKeypair
    /\ ctxDone = FALSE
    /\ found = <<>>
    /\ cpc = "idle"
    /\ i = 0
    /\ wpc = [w \in WorkerIds |-> "unborn"]
    /\ wkp = [w \in WorkerIds |-> NoKeypair]
    /\ account = ZeroAccount

\* the steps of the search running inside maintainUnpickedKeys. Its ctx is
\* made by context.WithCancel(context.Background()) and cancelled only by
\* the cancel() that follows the call's return, so the ctx.Done() case of
\* the call's select (ReturnCancelled) and the 1s backoff behind it
\* (SearchBackoffOver) cannot be taken here
SearchStep ==
    \/ Spawn
    \/ \E w \in WorkerIds : WorkerIter(w)
    \/ \E w \in WorkerIds : WorkerSend(w)
    \/ ReturnFound

\* the steps of the loop that no database failure takes part in
LoopStep ==
    \/ CheckCount
    \/ SleepOver
    \/ FillLoop
    \/ SearchReturned
    \/ Insert
    \/ Recount
    \/ FilledSleepOver

\* the database failures and the backoff behind a failed count
FailureStep ==
    \/ CheckCountFails
    \/ CountBackoffOver
    \/ InsertFails
    \/ RecountFails

Next ==
    \/ LoopStep
    \/ FailureStep
    \/ SearchStep
    \/ ConsumerPick

Spec == Init /\ [][Next]_vars

\* the positions outside a Filling episode
OutsideFilling == { "Checking", "CountBackoff", "Sleeping", "FilledSleeping" }

\* a consumer that marks no key picked during a Filling episode
QuietConsumerPick ==
    /\ pc \in OutsideFilling
    /\ ConsumerPick

QuietNext ==
    \/ LoopStep
    \/ FailureStep
    \/ SearchStep
    \/ QuietConsumerPick

\* the loop with no consumer acting during a Filling episode
QuietSpec == Init /\ [][QuietNext]_vars

CleanNext ==
    \/ LoopStep
    \/ SearchStep
    \/ QuietConsumerPick

\* the loop with no database failure and no consumer acting during a
\* Filling episode
CleanSpec == Init /\ [][CleanNext]_vars

\* the direct call under fair scheduling: the call's goroutine and every
\* worker keep running while they can take a step, and a worker whose
\* draws can match does not miss forever
FairSearchSpec ==
    /\ SearchInit
    /\ [][SearchNext]_vars
    /\ WF_vars(Spawn)
    /\ WF_vars(ReturnCancelled \/ ReturnFound)
    /\ \A w \in WorkerIds : WF_vars(WorkerIter(w))
    /\ \A w \in WorkerIds : WF_vars(WorkerSend(w))

(***************************************************************************)
(* The older program (src/unnamed/part_000): generateVanityKeypair(suffix)  *)
(* with a token channel and a shared account, and checkAndGenerateKeys.    *)
(* Its state reuses the variables above: found holds the tokens, wkp the   *)
(* newAccount of a worker, kp the two strings the call returns, c the      *)
(* count read, workers the number of workers.                              *)
(***************************************************************************)
\* numWorkers := 4
numWorkers == 4

OldWorkerIds == 1..numWorkers

\* capacity of make(chan struct{}, 1)
TokenCap == 1

\* the literal 50 of "if count < 50", scaled down to the model's key space
KeyThreshold == 2

\* the state of a call that has just been entered
OldCallEntered ==
    /\ account' = ZeroAccount
    /\ found' = <<>>
    /\ cpc' = "spawn"
    /\ i' = 0
    /\ wpc' = [w \in OldWorkerIds |-> "unborn"]
    /\ wkp' = [w \in OldWorkerIds |-> ZeroAccount]

\* for i := 0; i < numWorkers; i++ { go func() {...}() }
OldSpawn ==
    /\ cpc = "spawn"
    /\ IF i < numWorkers
       THEN /\ wpc' = [wpc EXCEPT ![i + 1] = "loop"]
            /\ i' = i + 1
            /\ cpc' = cpc
       ELSE /\ cpc' = "wait"
            /\ UNCHANGED << wpc, i >>
    /\ UNCHANGED << cfgVars, account, loopVars, err, kp, ctxDone, found, wkp >>

\* one round of a worker: select { case <-found: return; default: draw an
\* account and compare the tail of its encoding with suffix }
OldWorkerIter(w) ==
    /\ wpc[w] = "loop"
    /\ IF found # <<>>
       THEN /\ found' = Tail(found)
            /\ wpc' = [wpc EXCEPT ![w] = "stopped"]
            /\ wkp' = wkp
       ELSE /\ found' = found
            /\ \E newAccount \in Accounts :
                  LET pubkeyString == Base58Encode(newAccount.PublicKey)
                  IN  IF /\ Len(pubkeyString) >= Len(suffix)
                         /\ SubSeq(pubkeyString,
                                   Len(pubkeyString) - Len(suffix) + 1,
                                   Len(pubkeyString)) = suffix
                      THEN /\ wpc' = [wpc EXCEPT ![w] = "write"]
                           /\ wkp' = [wkp EXCEPT ![w] = newAccount]
                      ELSE UNCHANGED << wpc, wkp >>
    /\ UNCHANGED << cfgVars, account, loopVars, err, kp, ctxDone, cpc, i >>

\* mu.Lock(); account = newAccount; mu.Unlock()
OldWorkerWrite(w) ==
    /\ wpc[w] = "write"
    /\ account' = wkp[w]
    /\ wpc' = [wpc EXCEPT ![w] = "signal"]
    /\ UNCHANGED << cfgVars, loopVars, err, kp, ctxDone, found, cpc, i, wkp >>

\* select { case found <- struct{}{}: default: }; return
OldWorkerSignal(w) ==
    /\ wpc[w] = "signal"
    /\ found' = IF Len(found) < TokenCap THEN Append(found, "token") ELSE found
    /\ wpc' = [wpc EXCEPT ![w] = "stopped"]
    /\ wkp' = [wkp EXCEPT ![w] = ZeroAccount]
    /\ UNCHANGED << cfgVars, account, loopVars, err, kp, ctxDone, cpc, i >>

\* <-found in the caller
OldReceive ==
    /\ cpc = "wait"
    /\ found # <<>>
    /\ found' = Tail(found)
    /\ cpc' = "readPriv"
    /\ UNCHANGED << cfgVars, account, loopVars, err, kp, ctxDone, i, wpc, wkp >>

\* privateKey := base58.Encode(account.PrivateKey[:]), read without mu.
\* The read races with the workers' writes; each read is taken here as one
\* step, which is among the outcomes of the race.
OldReadPriv ==
    /\ cpc = "readPriv"
    /\ kp' = [ Priv |-> Base58Encode(account.PrivateKey), Pub |-> <<>> ]
    /\ cpc' = "readPub"
    /\ UNCHANGED << cfgVars, account, loopVars, err, ctxDone, found, i, wpc, wkp >>

\* publicKey := base58.Encode(account.PublicKey[:]); return
OldReadPub ==
    /\ cpc = "readPub"
    /\ kp' = [ kp EXCEPT !.Pub = Base58Encode(account.PublicKey) ]
    /\ cpc' = "returned"
    /\ UNCHANGED << cfgVars, account, loopVars, err, ctxDone, found, i, wpc, wkp >>

\* db.Create(&newKey): any clash on a unique column or the key is an error
Create(rows, newKey) ==
    IF \E r \in rows : \/ r.ID = newKey.ID
                        \/ r.PrivateKey = newKey.PrivateKey
                        \/ r.PublicKey = newKey.PublicKey
    THEN [ rows |-> rows, err |-> TRUE ]
    ELSE [ rows |-> rows \cup { newKey }, err |-> FALSE ]

\* db.Model(&TokenKey{}).Count(&count): all rows, picked or not; below the
\* threshold the loop calls generateVanityKeypair, else it sleeps a minute
OldCheck ==
    /\ pc = "OldChecking"
    /\ c' = Cardinality(store)
    /\ IF c' < KeyThreshold
       THEN /\ pc' = "OldSearching"
            /\ OldCallEntered
       ELSE /\ pc' = "OldSleeping"
            /\ UNCHANGED << account, found, cpc, i, wpc, wkp >>
    /\ UNCHANGED << cfgVars, store, err, kp, ctxDone >>

\* the count fails: its error is not looked at and count keeps its zero
OldCheckFails ==
    /\ pc = "OldChecking"
    /\ c' = 0
    /\ 0 < KeyThreshold
    /\ pc' = "OldSearching"
    /\ OldCallEntered
    /\ UNCHANGED << cfgVars, store, err, kp, ctxDone >>

\* generateVanityKeypair has returned; its goroutines that still run keep
\* their own account and found and are dropped from the state
OldSearchReturned ==
    /\ pc = "OldSearching"
    /\ cpc = "returned"
    /\ pc' = "OldInserting"
    /\ cpc' = "idle"
    /\ account' = ZeroAccount
    /\ found' = <<>>
    /\ i' = 0
    /\ wpc' = [w \in OldWorkerIds |-> "unborn"]
    /\ wkp' = [w \in OldWorkerIds |-> ZeroAccount]
    /\ UNCHANGED << cfgVars, store, c, err, kp, ctxDone >>

\* newKey := TokenKey{...}; db.Create(&newKey); log; continue
OldInsert ==
    /\ pc = "OldInserting"
    /\ LET res == Create(store, NewKey(store, kp))
       IN  /\ store' = res.rows
           /\ err' = res.err
    /\ pc' = "OldChecking"
    /\ UNCHANGED << cfgVars, account, c, kp, searchVars >>

\* the insert fails in the database: log; continue
OldInsertFails ==
    /\ pc = "OldInserting"
    /\ err' = TRUE
    /\ pc' = "OldChecking"
    /\ UNCHANGED << cfgVars, account, store, c, kp, searchVars >>

\* time.Sleep(time.Minute) is over
OldSleepOver ==
    /\ pc = "OldSleeping"
    /\ pc' = "OldChecking"
    /\ UNCHANGED << cfgVars, account, store, c, err, kp, searchVars >>

\* go checkAndGenerateKeys(db) on an empty table
OldInit ==
    /\ suffix \in Suffixes
    /\ workers = numWorkers
    /\ target = KeyThreshold
    /\ store = {}
    /\ pc = "OldChecking"
    /\ c = 0
    /\ err = FALSE
    /\ kp = NoKeypair
    /\ ctxDone = FALSE
    /\ found = <<>>
    /\ cpc = "idle"
    /\ i = 0
    /\ wpc = [w \in OldWorkerIds |-> "unborn"]
    /\ wkp = [w \in OldWorkerIds |-> ZeroAccount]
    /\ account = ZeroAccount

OldSearchStep ==
    \/ OldSpawn
    \/ \E w \in OldWorkerIds : OldWorkerIter(w)
    \/ \E w \in OldWorkerIds : OldWorkerWrite(w)
    \/ \E w \in OldWorkerIds : OldWorkerSignal(w)
    \/ OldReceive
    \/ OldReadPriv
    \/ OldReadPub

OldLoopStep ==
    \/ OldCheck
    \/ OldCheckFails
    \/ OldSearchReturned
    \/ OldInsert
    \/ OldInsertFails
    \/ OldSleepOver

OldNext == OldLoopStep \/ OldSearchStep \/ ConsumerPick

OldSpec == OldInit /\ [][OldNext]_vars

(***************************************************************************)
(* Properties of generateVanityKeypair.                                    *)
(***************************************************************************)
\* s ends with t: some prefix followed by t is s
EndsWith(s, t) == \E k \in 0..Len(s) : SubSeq(s, k + 1, Len(s)) = t

\* the call has returned a keypair with a nil error
ReturnedKeypair == cpc = "returned" /\ ~err

\* the workers that have sent a match into found
Delivered == { w \in WorkerIds : wpc[w] = "delivered" }

\* the workers that have been started and have not returned
Running == { w \in WorkerIds : wpc[w] \in { "loop", "send" } }

\* C1 as stated: whenever the call returns a keypair with a nil error, the
\* returned Pub ends with the suffix exactly as the caller passed it.
C1_PubEndsWithCallerSuffix ==
    ReturnedKeypair => EndsWith(kp.Pub, suffix)

\* C1 amended: whenever the call returns a keypair with a nil error, the
\* returned Pub ends (case-sensitively) with strings.TrimSpace of the suffix
\* the caller passed.
C1_PubEndsWithTrimmedSuffix ==
    ReturnedKeypair => EndsWith(kp.Pub, TrimSpace(suffix))

\* a keypair was returned for a suffix that white space surrounds
C1_Witness ==
    /\ ReturnedKeypair
    /\ TrimSpace(suffix) # suffix
    /\ TrimSpace(suffix) # <<>>

\* C2: with at least one worker and a sampler that can produce a public key
\* ending with the suffix, under fair scheduling the call eventually returns
\* a keypair whose Pub ends with the suffix, unless ctx is cancelled.
C2_SearchTerminatesWithMatch ==
    ( /\ workers >= 1
      /\ \E acc \in Accounts : EndsWith(Base58Encode(acc.PublicKey), suffix) )
    => <>( ctxDone \/ (ReturnedKeypair /\ EndsWith(kp.Pub, suffix)) )

\* the call returned a matching keypair for a non-empty suffix while ctx was
\* not cancelled and another worker was still running
C2_Witness ==
    /\ ReturnedKeypair
    /\ ~ctxDone
    /\ suffix # <<>>
    /\ EndsWith(kp.Pub, suffix)
    /\ Running # {}

\* no worker has published a match: nothing was sent into found
NoMatchPublished == found = <<>> /\ Delivered = {}

\* C3 as stated: once ctx is cancelled while no worker has published a
\* match, the call returns only the Cancelled outcome, never a keypair.
C3_CancelledBeforeMatchReturnsCancelled ==
    []( (ctxDone /\ NoMatchPublished /\ cpc # "returned")
            => [](cpc = "returned" => err /\ kp = NoKeypair) )

\* C4 as stated: once ctx is cancelled, every spawned worker eventually
\* terminates (no worker stays running or blocked).
C4_WorkersTerminateAfterCancel ==
    ctxDone ~> (cpc \in { "select", "returned" } /\ Running = {})

\* C5 as stated: at most one match is ever delivered into found, and no
\* worker waits at the send once a match has been published.
C5_DeliveryExactlyOnce ==
    /\ Cardinality(Delivered) <= 1
    /\ \A w \in WorkerIds :
          wpc[w] = "send" => (Delivered = {} /\ Len(found) < FoundCap)

(***************************************************************************)
(* Properties of maintainUnpickedKeys.                                     *)
(***************************************************************************)
\* a step that leaves the inner fill loop for the post-fill sleep
FillingCompletes == pc # "FilledSleeping" /\ pc' = "FilledSleeping"

\* no two rows carry the same public key
PublicKeysUnique(rows) ==
    \A r1, r2 \in rows : r1.PublicKey = r2.PublicKey => r1 = r2

\* C6 as stated: with no consumer acting during the episode, whenever a
\* Filling episode completes the store's unpicked count is >= target,
\* whatever errors search, insert and countUnpicked gave.
C6_FilledMeansTargetReached ==
    [][FillingCompletes => CountUnpicked(store') >= target]_vars

\* C7: a successful Checking count with c >= target leads straight to
\* Sleeping and from there back to Checking; in these steps the store is
\* left as it is and no search is started (hence no insert is issued).
C7_EnoughGoesToSleeping ==
    [][ /\ (pc = "Checking" /\ pc' # pc /\ ~err' /\ c' >= target)
            => /\ pc' = "Sleeping"
               /\ c' = CountUnpicked(store)
               /\ store' = store
               /\ UNCHANGED searchVars
        /\ pc = "Sleeping"
            => /\ cpc = "idle"
               /\ pc' # pc
                    => /\ pc' = "Checking"
                       /\ store' = store
                       /\ UNCHANGED searchVars ]_vars

\* the loop sleeps with a positive target met by the store
C7_Witness ==
    /\ pc = "Sleeping"
    /\ target >= 1
    /\ CountUnpicked(store) >= target

\* C8 as stated: with no store errors and no consumer during the episode, a
\* completed Filling episode leaves exactly target unpicked rows with
\* pairwise distinct public keys, each ending with the suffix as configured;
\* an insert of an already stored public key adds no row and goes on to the
\* recount.
C8_EpisodeFillsExactlyCallerSuffix ==
    [][ /\ FillingCompletes
            => /\ CountUnpicked(store') = target
               /\ PublicKeysUnique(store')
               /\ \A r \in store' : EndsWith(r.PublicKey, suffix)
        /\ (pc = "Inserting" /\ pc' # pc
                /\ \E r \in store : r.PublicKey = kp.Pub)
            => store' = store /\ pc' = "Recounting" ]_vars

\* C8 amended: as stated, with each public key ending with
\* strings.TrimSpace of the configured suffix.
C8_EpisodeFillsExactly ==
    [][ /\ FillingCompletes
            => /\ CountUnpicked(store') = target
               /\ PublicKeysUnique(store')
               /\ \A r \in store' : EndsWith(r.PublicKey, TrimSpace(suffix))
        /\ (pc = "Inserting" /\ pc' # pc
                /\ \E r \in store : r.PublicKey = kp.Pub)
            => store' = store /\ pc' = "Recounting" ]_vars

\* an episode has completed for a target of two or more: the store holds
\* that many unpicked rows
C8_Witness ==
    /\ pc = "FilledSleeping"
    /\ target >= 2
    /\ CountUnpicked(store) = target

\* C9: without a database failure the insert succeeds whether or not the
\* public key is stored already; if it is, the store is left as it is (one
\* row with that key, unchanged); if not, exactly one row is added, carrying
\* the keypair with isPicked = false; public keys stay unique.
C9_InsertIfAbsent ==
    [][ (pc = "Inserting" /\ pc' # pc)
            => /\ ~err'
               /\ pc' = "Recounting"
               /\ PublicKeysUnique(store')
               /\ IF \E r \in store : r.PublicKey = kp.Pub
                  THEN store' = store
                  ELSE \E r \in store' \ store :
                          /\ store' = store \cup { r }
                          /\ r.PublicKey = kp.Pub
                          /\ r.PrivateKey = kp.Priv
                          /\ ~r.IsPicked ]_vars

\* an insert of a public key whose stored row is already picked has
\* succeeded (no consumer acts between the insert and the recount)
C9_Witness ==
    /\ pc = "Recounting"
    /\ ~err
    /\ \E r \in store : r.PublicKey = kp.Pub /\ r.IsPicked

\* C10: a failed Checking count leads to the backoff and from there back to
\* Checking, with the store left as it is and no search started; the
\* backoff always ends, and a count that then succeeds leads to Sleeping or
\* to Filling as the count decides.
C10_CountFailureBacksOff ==
    [][ /\ (pc = "Checking" /\ pc' # pc /\ err')
            => /\ pc' = "CountBackoff"
               /\ store' = store
               /\ UNCHANGED searchVars
        /\ pc = "CountBackoff"
            => /\ cpc = "idle"
               /\ ENABLED CountBackoffOver
               /\ pc' # pc
                    => /\ pc' = "Checking"
                       /\ store' = store
                       /\ UNCHANGED searchVars
        /\ (pc = "Checking" /\ pc' # pc /\ ~err')
            => \/ pc' = "Sleeping" /\ c' >= target
               \/ pc' = "Filling" /\ c' < target ]_vars

\* the loop is in the backoff of a failed count over a store it has filled
C10_Witness ==
    /\ pc = "CountBackoff"
    /\ err
    /\ store # {}

\* the positions of the loop: Checking, Filling and Sleeping of the design
\* with the steps of Filling told apart
LoopPositions ==
    { "Checking", "CountBackoff", "Sleeping", "Filling", "Searching",
      "SearchBackoff", "Inserting", "Recounting", "FilledSleeping" }

\* a step of the loop or of its search (not of a consumer)
ProgramStep == LoopStep \/ FailureStep \/ SearchStep

\* C11: with workers >= 1 the loop is always at one of its positions and the
\* program always has a next step: no error leads to an exit or a halt.
C11_NoTerminalState ==
    workers >= 1 => (pc \in LoopPositions /\ ENABLED ProgramStep)

\* the loop is back at the loop test after an error, with rows in the store
C11_Witness ==
    /\ workers >= 1
    /\ pc = "Filling"
    /\ err
    /\ store # {}

\* C12: an insert that fails leaves c and the store as they are and leads
\* back to the loop test, whose next step is another search, not a sleep;
\* Recounting is entered only by an insert that succeeded, and inside the
\* fill loop c changes only there.
C12_FailedInsertRetries ==
    [][ /\ (pc = "Inserting" /\ pc' # pc /\ err')
            => pc' = "Filling" /\ c' = c /\ store' = store
        /\ (pc = "Filling" /\ err /\ pc' # pc) => pc' = "Searching"
        /\ (pc' = "Recounting" /\ pc # pc') => (pc = "Inserting" /\ ~err')
        /\ c' # c => pc \in { "Checking", "Recounting" } ]_vars

\* an insert has failed for a key the store does not hold
C12_Witness ==
    /\ pc = "Filling"
    /\ err
    /\ kp # NoKeypair
    /\ \A r \in store : r.PublicKey # kp.Pub

C14_NoOvershoot ==
    [][ /\ (pc = "Inserting" /\ pc' # pc /\ ~err') => pc' = "Recounting"
        /\ (pc = "Recounting" /\ pc' # pc /\ ~err')
            => c' = CountUnpicked(store) /\ pc' = "Filling"
        /\ pc \in { "Searching", "Inserting" } => c < target
        /\ CountUnpicked(store') <= CountUnpicked(store) + 1
        /\ CountUnpicked(store') > CountUnpicked(store)
            => CountUnpicked(store) < target
        /\ CountUnpicked(store) <= target + 1 ]_vars

\* an insert is under way on a count that a consumer has made stale
C14_Witness ==
    /\ pc = "Inserting"
    /\ CountUnpicked(store) < c

\* C15: every step is a consumer's, or keeps every row as it is and adds at
\* most one row, which is unpicked; so the unpicked count falls only in a
\* consumer's step.
C15_StoreOnlyGrows ==
    [][ \/ ConsumerPick
        \/ /\ store \subseteq store'
           /\ Cardinality(store' \ store) <= 1
           /\ \A r \in store' \ store : ~r.IsPicked
           /\ CountUnpicked(store') >= CountUnpicked(store) ]_vars

\* a row was inserted into a store that holds a picked row
C15_Witness ==
    /\ pc = "Recounting"
    /\ \E r \in store : r.IsPicked
    /\ \E r \in store : ~r.IsPicked /\ r.PublicKey = kp.Pub

\* the public keys the store holds
KnownPubs == { r.PublicKey : r \in store }

\* worker w draws a matching account the store does not hold yet while
\* nothing is published and the call has not returned
FreshDraw(w) ==
    /\ WorkerIter(w)
    /\ found = <<>>
    /\ cpc # "returned"
    /\ wpc'[w] = "send"
    /\ wkp'[w].Pub \notin KnownPubs

\* worker w publishes a keypair the store does not hold yet to a call that
\* has not returned
FreshSend(w) ==
    /\ WorkerSend(w)
    /\ cpc # "returned"
    /\ wkp[w].Pub \notin KnownPubs

\* the loop under fair scheduling: the goroutines of the loop and of the
\* search keep running, a sleep ends, and a worker that can draw and publish
\* a key the store lacks does so in the end; database failures and consumers
\* are under no obligation
FairSpec ==
    /\ Init
    /\ [][Next]_vars
    /\ WF_vars(LoopStep)
    /\ WF_vars(CountBackoffOver)
    /\ WF_vars(Spawn)
    /\ WF_vars(ReturnFound)
    /\ \A w \in WorkerIds : WF_vars(WorkerSend(w))
    /\ \A w \in WorkerIds : SF_vars(FreshDraw(w))
    /\ \A w \in WorkerIds : SF_vars(FreshSend(w))

\* a database call that fails
StoreError == CheckCountFails \/ InsertFails \/ RecountFails

\* an account that matches the suffix and is not in the store exists
KeysLeft ==
    \E acc \in Accounts :
        /\ HasSuffix(Base58Encode(acc.PublicKey), TrimSpace(suffix))
        /\ Base58Encode(acc.PublicKey) \notin KnownPubs

\* the loop sleeps with the target met
Replenished ==
    /\ pc \in { "Sleeping", "FilledSleeping" }
    /\ CountUnpicked(store) >= target

\* C16: with workers >= 1, in a fair behaviour with finitely many database
\* failures and consumer picks in which the sampler can always produce a
\* matching key the store lacks while the count is below target, an unpicked
\* count below target leads to the loop sleeping with the count at or above
\* target.
C16_Replenishes ==
    ( /\ <>[][~StoreError /\ ~ConsumerPick]_vars
      /\ [](workers >= 1)
      /\ [](CountUnpicked(store) < target => KeysLeft) )
    => (CountUnpicked(store) < target ~> Replenished)

\* the loop sleeps with the target met again after a consumer's pick
C16_Witness ==
    /\ Replenished
    /\ target >= 1
    /\ \E r \in store : r.IsPicked
    /\ pc = "FilledSleeping"

\* C20: with workers <= 0 no worker is started, the call never returns and
\* nothing is inserted; once the loop is in the search it stays there, and
\* with the call at its select the program has no step left.
C20_NoWorkersBlocksForever ==
    [][ workers <= 0 =>
           /\ \A w \in WorkerIds : wpc[w] = "unborn"
           /\ cpc' # "returned"
           /\ store' = {}
           /\ pc = "Searching" => pc' = "Searching"
           /\ (pc = "Searching" /\ cpc = "select") => ~ENABLED ProgramStep ]_vars

\* the loop waits in the select of a call made with no worker
C20_Witness ==
    /\ workers <= 0
    /\ pc = "Searching"
    /\ cpc = "select"
    /\ c < target

(***************************************************************************)
(* Properties of the older program.                                        *)
(***************************************************************************)
\* the workers of the older search that have been started and have not
\* returned
OldRunning == { w \in OldWorkerIds : wpc[w] \in { "loop", "write", "signal" } }

\* C17: the caller of the older generateVanityKeypair is never left waiting
\* for a token that cannot come: while it waits, a token is in found or a
\* worker still runs that can publish one.
C17_CallerNeverStranded ==
    (pc = "OldSearching" /\ cpc = "wait") => (found # <<>> \/ OldRunning # {})

\* C18: the two strings the older generateVanityKeypair returns, and those of
\* every stored row, encode the private and the public key of one account.
C18_KeypairOfOneAccount ==
    /\ (pc = "OldSearching" /\ cpc = "returned")
          => \E acc \in Accounts : kp = KeypairOf(acc)
    /\ pc \in { "OldChecking", "OldSearching", "OldInserting", "OldSleeping" }
          => \A r \in store : \E acc \in Accounts :
                 /\ r.PrivateKey = Base58Encode(acc.PrivateKey)
                 /\ r.PublicKey = Base58Encode(acc.PublicKey)

\* C19: a check of the older loop that finds fewer unpicked rows than the
\* threshold goes on to generate and insert, not to sleep.
C19_BelowThresholdGenerates ==
    [][ (pc = "OldChecking" /\ pc' # pc /\ CountUnpicked(store) < KeyThreshold)
            => pc' = "OldSearching" ]_vars

=============================================================================
